---- MODULE Spec2Model ----
(***************************************************************************)
(* Notion -> Google Calendar synchronisation (src/notion2gcalendar.py).    *)
(*                                                                         *)
(* Python strings are modelled as sequences of one-character strings, so   *)
(* that split(), strip(), join() and concatenation are computed the way    *)
(* the code computes them.  The state machine is one scheduled run after   *)
(* another of the __main__ block: parse the database, read and parse the   *)
(* calendar, classify the keys, then the three loops of synchronize_tasks, *)
(* one loop iteration per step.                                            *)
(***************************************************************************)
EXTENDS Integers, Sequences, FiniteSets, TLC

\* ------------------------------------------------------------------------
\* Bounds of the model
\* ------------------------------------------------------------------------

\* Number of scheduled runs of the __main__ block that are explored.
MaxRuns == 2

\* Number of edits made to the Notion database between runs.
MaxEdits == 1

\* Longest free text typed into the Description field that is enumerated.
MaxTextLen == 2

\* ------------------------------------------------------------------------
\* Python str operations
\* ------------------------------------------------------------------------

NL == "\n"

Whitespace == {" ", NL, "\t", "\r"}

Digits == {"0", "1", "2", "3", "4", "5", "6", "7", "8", "9"}

\* s.split(c) for a one-character separator c: always at least one piece.
Split(s, c) ==
    LET P == {i \in 1..Len(s) : s[i] = c}
        n == Cardinality(P)
        pos(j) == IF j = 0 THEN 0
                  ELSE IF j = n + 1 THEN Len(s) + 1
                  ELSE CHOOSE p \in P : Cardinality({q \in P : q < p}) = j - 1
    IN  [j \in 1..(n + 1) |-> SubSeq(s, pos(j - 1) + 1, pos(j) - 1)]

\* s.strip(): leading and trailing whitespace removed.
Strip(s) ==
    LET N == {i \in 1..Len(s) : s[i] \notin Whitespace}
    IN  IF N = {} THEN <<>>
        ELSE SubSeq(s, CHOOSE i \in N : \A j \in N : i <= j,
                       CHOOSE i \in N : \A j \in N : j <= i)

\* sep.join(items)
RECURSIVE Join(_, _)
Join(sep, items) ==
    IF items = <<>> THEN <<>>
    ELSE IF Len(items) = 1 THEN items[1]
    ELSE items[1] \o sep \o Join(sep, Tail(items))

\* ------------------------------------------------------------------------
\* String literals of the program and of its inputs
\* ------------------------------------------------------------------------

TitleSentinel == <<"T", "i", "t", "l", "e", " ", "i", "s", " ", "n", "o", "t", " ", "s", "p", "e", "c", "i", "f", "i", "e", "d", "!">>

DescriptionSentinel == <<"D", "e", "s", "c", "r", "i", "p", "t", "i", "o", "n", " ", "i", "s", " ", "e", "m", "p", "t", "y", "!">>

NotesSentinel == <<"N", "o", "t", "e", "s", " ", "a", "r", "e", " ", "e", "m", "p", "t", "y", "!">>

CategorySentinel == <<"N", "o", "t", " ", "c", "a", "t", "e", "g", "o", "r", "i", "z", "e", "d", "!">>

DueMissingSentinel == <<"D", "U", "E", " ", "D", "A", "T", "E", " ", "I", "S", " ", "N", "O", "T", " ", "S", "P", "E", "C", "I", "F", "I", "E", "D", ".", " ", "T", "A", "S", "K", " ", "I", "S", " ", "C", "R", "E", "A", "T", "E", "D", " ", "O", "N", " ", "C", "R", "E", "A", "T", "I", "O", "N", " ", "T", "I", "M", "E", "!">>

DefaultAssignmentHour == <<"0", "0", ":", "0", "0">>

DefaultDueHour == <<"1", "2", ":", "0", "0", ":", "0", "0">>

ZeroOffset == <<"0", "0", ":", "0", "0">>

CommaSpace == <<",", " ">>

LblDescription == <<"D", "e", "s", "c", "r", "i", "p", "t", "i", "o", "n", ":", " ">>

LblNotes == <<"N", "o", "t", "e", "s", ":", " ">>

LblCategory == <<"C", "a", "t", "e", "g", "o", "r", "y", ":", " ">>

LblAssignment == <<"A", "s", "s", "i", "g", "n", "m", "e", "n", "t", " ", "D", "a", "t", "e", ":", " ">>

DashSep == <<" ", "-", " ">>

SeparatorLine == <<"-", "-", "-", "-", "-", "-", "-", "-", "-", "-">>

WarningLine == <<"P", "l", "e", "a", "s", "e", " ", "d", "o", " ", "n", "o", "t", " ", "e", "d", "i", "t", " ", "f", "o", "l", "l", "o", "w", "i", "n", "g", " ", "l", "i", "n", "e", "s", "!">>

StatusCompleted == <<"C", "o", "m", "p", "l", "e", "t", "e", "d">>

StatusClosed == <<"C", "l", "o", "s", "e", "d">>

StatusFailed == <<"F", "a", "i", "l", "e", "d">>

StatusInProgress == <<"I", "n", " ", "p", "r", "o", "g", "r", "e", "s", "s">>

DateOnlyA == <<"2", "0", "2", "4", "-", "0", "5", "-", "0", "1">>

DateTimeA == <<"2", "0", "2", "4", "-", "0", "5", "-", "0", "1", "T", "1", "0", ":", "0", "0", ":", "0", "0", ".", "0", "0", "0", "+", "0", "3", ":", "0", "0">>

DateTimeZ == <<"2", "0", "2", "4", "-", "0", "5", "-", "0", "1", "T", "1", "0", ":", "0", "0", ":", "0", "0", ".", "0", "0", "0", "Z">>

DateOnlyD == <<"2", "0", "2", "4", "-", "0", "5", "-", "0", "3">>

DateTimeD == <<"2", "0", "2", "4", "-", "0", "5", "-", "0", "3", "T", "2", "3", ":", "4", "5", ":", "0", "0", ".", "0", "0", "0", "+", "0", "2", ":", "0", "0">>

DateTimeNoMs == <<"2", "0", "2", "4", "-", "0", "5", "-", "0", "3", "T", "1", "8", ":", "3", "0", ":", "0", "0", "+", "0", "2", ":", "0", "0">>

Created == <<"2", "0", "2", "4", "-", "0", "4", "-", "3", "0", "T", "0", "9", ":", "1", "5", ":", "0", "0", ".", "0", "0", "0", "Z">>

\* The last_edited_time Notion gives a record after its n-th edit.
Stamp(n) ==
    <<"2", "0", "2", "4", "-", "0", "5", "-", "0", "2", "T", "0", "8", ":", "0">>
    \o << <<"0", "1", "2", "3", "4", "5", "6", "7", "8", "9">>[n + 1] >>
    \o <<":", "0", "0", ".", "0", "0", "0", "Z">>

\* ------------------------------------------------------------------------
\* Raw records of the Notion database (the response of read_database)
\* ------------------------------------------------------------------------

Id1 == <<"t", "1">>

Id2 == <<"t", "2">>

\* The 'date' object of a date property: null, an object whose 'start' is
\* None, or an object with a 'start' string.
DateNull == [kind |-> "null", start |-> <<>>]

DateNoStart == [kind |-> "nostart", start |-> <<>>]

DateStart(s) == [kind |-> "start", start |-> s]

\* 'Status' with select = null, or select.name = n.
NoStatus == [select |-> FALSE, name |-> <<>>]

StatusOf(n) == [select |-> TRUE, name |-> n]

Statuses == {NoStatus, StatusOf(StatusInProgress), StatusOf(StatusCompleted),
             StatusOf(StatusClosed), StatusOf(StatusFailed)}

TextAlphabet == {"a", ":", NL}

\* Every non-empty text of at most n characters over the alphabet.
Texts(n) == UNION {[1..k -> TextAlphabet] : k \in 1..n}

BaseRecord(id) ==
    [id |-> id,
     status |-> StatusOf(StatusInProgress),
     title |-> << <<"T">> >>,
     description |-> << <<"d">> >>,
     notes |-> << <<"n">> >>,
     category |-> << <<"x">> >>,
     assignment |-> DateStart(DateOnlyA),
     due |-> DateStart(DateTimeD),
     created_time |-> Created,
     last_edited_time |-> Stamp(0)]

AssignmentProps == {DateStart(DateOnlyA), DateStart(DateTimeA),
                    DateStart(DateTimeZ), DateNull}

DueProps == {DateNoStart, DateStart(DateOnlyD), DateStart(DateTimeD),
             DateStart(DateTimeNoMs), DateNull}

\* Records that vary which of the four text fields are empty.
DefaultsRecords(id) ==
    {[BaseRecord(id) EXCEPT !.title = t, !.description = d, !.notes = n,
                            !.category = c] :
        t \in {<<>>, << <<"T">> >>},
        d \in {<<>>, << <<"d">> >>},
        n \in {<<>>, << <<"n">> >>},
        c \in {<<>>, << <<"x">> >>, << <<"x">>, <<"y">> >>}}

\* Records that vary how the two dates are written.
DateRecords(id) ==
    {[BaseRecord(id) EXCEPT !.assignment = a, !.due = du] :
        a \in AssignmentProps, du \in DueProps}

\* Records that vary the free text of Description and Notes.
TextRecords(id) ==
    {[BaseRecord(id) EXCEPT !.description = <<t>>, !.notes = <<n>>] :
        t \in Texts(MaxTextLen),
        n \in {<<"n">>, <<"a", ":", "b">>, <<"a", NL, "b">>}}

\* Records that vary the status.
StatusRecords(id) == {[BaseRecord(id) EXCEPT !.status = s] : s \in Statuses}

\* Records of a two-record database.
PairRecords(id) ==
    {[BaseRecord(id) EXCEPT !.status = s, !.category = c, !.description = <<d>>] :
        s \in {StatusOf(StatusInProgress), StatusOf(StatusCompleted)},
        c \in {<<>>, << <<"x">> >>},
        d \in {<<"d">>, <<"a", NL, "b">>}}

\* The databases a first run may find.
Databases ==
    {<<r>> : r \in DefaultsRecords(Id1) \cup DateRecords(Id1)
                   \cup TextRecords(Id1) \cup StatusRecords(Id1)}
    \cup {<<r1, r2>> : r1 \in PairRecords(Id1), r2 \in PairRecords(Id2)}

\* ------------------------------------------------------------------------
\* parse_tasks_in_database
\* ------------------------------------------------------------------------

\* elem['properties']['Status']['select']['name'] can be read.
StatusReadable(elem) == elem.status.select

ClosedStatusesNoFailed == {StatusCompleted, StatusClosed}

ClosedStatuses == {StatusCompleted, StatusClosed, StatusFailed}

IsOpen(elem) == elem.status.name \notin ClosedStatuses

\* A time component 'HH:MM:SS.mmm+HH:MM' has something after a '+'.
HasOffset(timepart) == Len(Split(timepart, "+")) >= 2

\* The Assignment Date block raises: the guard of line 216 is always true, so
\* a null date (TypeError), a None start (AttributeError) and a time without
\* '+' (IndexError) all raise.
AssignmentRaises(elem) ==
    \/ elem.assignment.kind # "start"
    \/ LET a == Split(elem.assignment.start, "T")
       IN  Len(a) = 2 /\ ~HasOffset(a[2])

\* The Due Date block raises: a null date, a time without '+', or a
\* created_time without 'T' when the start is None.
DueRaises(elem) ==
    \/ elem.due.kind = "null"
    \/ /\ elem.due.kind = "start"
       /\ LET d == Split(elem.due.start, "T")
          IN  Len(d) = 2 /\ ~HasOffset(d[2])
    \/ /\ elem.due.kind = "nostart"
       /\ Len(Split(elem.created_time, "T")) < 2

RecordRaises(elem) == AssignmentRaises(elem) \/ DueRaises(elem)

\* tmp['category']: the joined tags (a str), or the one-element list
\* ["Not categorized!"] of line 214 (type "list", v its only element).
CategoryOf(elem) ==
    IF Len(elem.category) # 0
    THEN [type |-> "str", v |-> Join(CommaSpace, elem.category)]
    ELSE [type |-> "list", v |-> CategorySentinel]

\* tmp['due_hour'] of a present Due Date split on 'T' into d.
DueHourOf(d) ==
    IF Len(d) = 2 THEN Split(d[2], ".")[1] ELSE DefaultDueHour

\* tmp['user_time_zone'] after the Assignment Date block.
AssignmentZone(a) == IF Len(a) = 2 THEN Split(a[2], "+")[2] ELSE <<>>

\* tmp['user_time_zone'] after the Due Date block of a present Due Date.
DueZone(d, zone) ==
    IF Len(d) = 2 THEN Split(d[2], "+")[2]
    ELSE IF zone = <<>> THEN ZeroOffset ELSE zone

\* The dict tmp built for one open record that does not raise.
ParseRecord(elem) ==
    LET a == Split(elem.assignment.start, "T")
        d == Split(elem.due.start, "T")
        c == Split(elem.created_time, "T")
        hasDue == elem.due.kind = "start"
    IN  [task_id |-> elem.id,
         name |-> IF elem.title # <<>> THEN elem.title[1] ELSE TitleSentinel,
         description |-> IF elem.description # <<>> THEN elem.description[1]
                         ELSE DescriptionSentinel,
         notes |-> IF elem.notes # <<>> THEN elem.notes[1] ELSE NotesSentinel,
         category |-> CategoryOf(elem),
         assignment_date |-> IF hasDue THEN a[1] ELSE DueMissingSentinel,
         assignment_hour |-> IF Len(a) = 2 THEN Split(a[2], ".")[1]
                             ELSE DefaultAssignmentHour,
         user_time_zone |-> IF hasDue THEN DueZone(d, AssignmentZone(a))
                            ELSE AssignmentZone(a),
         due_date |-> IF hasDue THEN d[1] ELSE c[1],
         due_hour |-> IF hasDue THEN DueHourOf(d) ELSE Split(c[2], ".")[1],
         last_edited_time |-> elem.last_edited_time]

\* Positions of the records that end up in parsed_tasks.
Accepted(results) ==
    {i \in DOMAIN results :
        /\ StatusReadable(results[i])
        /\ IsOpen(results[i])
        /\ ~RecordRaises(results[i])}

\* parsed_tasks: a later record with the same id replaces an earlier one.
ParsedTasks(results) ==
    LET keys == {results[i].id : i \in Accepted(results)}
        last(k) == CHOOSE i \in Accepted(results) :
                      /\ results[i].id = k
                      /\ \A j \in Accepted(results) : results[j].id = k => j <= i
    IN  [k \in keys |-> ParseRecord(results[last(k)])]

RaisesInTry(elem) == StatusReadable(elem) /\ IsOpen(elem) /\ RecordRaises(elem)

\* err: the records that raised inside the try block, in order (their ids).
ParseErrors(results) ==
    LET failed == SelectSeq(results, RaisesInTry)
    IN  [i \in 1..Len(failed) |-> failed[i].id]

\* ------------------------------------------------------------------------
\* str_to_date and task_to_event
\* ------------------------------------------------------------------------

DigitValue(c) ==
    CASE c = "0" -> 0 [] c = "1" -> 1 [] c = "2" -> 2 [] c = "3" -> 3
      [] c = "4" -> 4 [] c = "5" -> 5 [] c = "6" -> 6 [] c = "7" -> 7
      [] c = "8" -> 8 [] c = "9" -> 9

\* int(x) accepts surrounding whitespace, one sign and decimal digits.
IntBody(x) ==
    LET s == Strip(x)
    IN  IF s # <<>> /\ s[1] \in {"+", "-"} THEN Tail(s) ELSE s

IsInt(x) == IntBody(x) # <<>> /\ \A i \in 1..Len(IntBody(x)) : IntBody(x)[i] \in Digits

RECURSIVE DigitsValue(_)
DigitsValue(ds) ==
    IF ds = <<>> THEN 0
    ELSE 10 * DigitsValue(SubSeq(ds, 1, Len(ds) - 1)) + DigitValue(ds[Len(ds)])

IntOf(x) ==
    LET s == Strip(x)
    IN  IF s[1] = "-" THEN 0 - DigitsValue(IntBody(x)) ELSE DigitsValue(IntBody(x))

IsLeap(y) == (y % 4 = 0 /\ y % 100 # 0) \/ y % 400 = 0

DaysInMonth(y, m) ==
    IF m = 2 THEN (IF IsLeap(y) THEN 29 ELSE 28)
    ELSE IF m \in {4, 6, 9, 11} THEN 30 ELSE 31

\* str_to_date raises (ValueError, IndexError) instead of returning.
StrToDateRaises(date, hour, user_time_zone) ==
    LET dp == Split(date, "-")
        hp == Split(hour, ":")
        zp == Split(user_time_zone, ":")
    IN  \/ \E i \in 1..Len(dp) : ~IsInt(dp[i])
        \/ \E i \in 1..Len(hp) : ~IsInt(hp[i])
        \/ Len(zp) # 2
        \/ \E i \in 1..Len(zp) : ~IsInt(zp[i])
        \/ Len(dp) < 3
        \/ Len(hp) < 3
        \/ LET y == IntOf(dp[1])
               m == IntOf(dp[2])
               d == IntOf(dp[3])
               off == 60 * IntOf(zp[1]) + IntOf(zp[2])
           IN  \/ y < 1 \/ y > 9999
               \/ m < 1 \/ m > 12
               \/ d < 1 \/ d > DaysInMonth(y, m)
               \/ IntOf(hp[1]) \notin 0..23
               \/ IntOf(hp[2]) \notin 0..59
               \/ IntOf(hp[3]) \notin 0..59
               \/ off <= 0 - 1440 \/ off >= 1440

\* The datetime str_to_date returns; offset is the zone in minutes.
StrToDate(date, hour, user_time_zone) ==
    LET dp == Split(date, "-")
        hp == Split(hour, ":")
        zp == Split(user_time_zone, ":")
    IN  [fallback |-> FALSE,
         year |-> IntOf(dp[1]), month |-> IntOf(dp[2]), day |-> IntOf(dp[3]),
         hour |-> IntOf(hp[1]), minute |-> IntOf(hp[2]), second |-> IntOf(hp[3]),
         offset |-> 60 * IntOf(zp[1]) + IntOf(zp[2])]

\* datetime.now(): the instant of the run, marked as the fallback.
Now ==
    [fallback |-> TRUE, year |-> 2024, month |-> 5, day |-> 2,
     hour |-> 7, minute |-> 0, second |-> 0, offset |-> 0]

\* t + timedelta(minutes=n) for n below one day.
PlusMinutes(t, n) ==
    LET total == 60 * t.hour + t.minute + n
        carry == total >= 1440
        rest == IF carry THEN total - 1440 ELSE total
        lastDay == t.day = DaysInMonth(t.year, t.month)
    IN  [t EXCEPT !.hour = rest \div 60,
                  !.minute = rest % 60,
                  !.day = IF ~carry THEN t.day ELSE IF lastDay THEN 1 ELSE t.day + 1,
                  !.month = IF carry /\ lastDay
                            THEN (IF t.month = 12 THEN 1 ELSE t.month + 1)
                            ELSE t.month,
                  !.year = IF carry /\ lastDay /\ t.month = 12
                           THEN t.year + 1 ELSE t.year]

EventMinutes == 30

\* event_start of task_to_event: the except branch falls back to now().
EventStart(task) ==
    IF StrToDateRaises(task.due_date, task.due_hour, task.user_time_zone)
    THEN Now
    ELSE StrToDate(task.due_date, task.due_hour, task.user_time_zone)

\* The concatenation of lines 121-128 adds a str and task['category']:
\* a list there is a TypeError, outside every try block.
TaskToEventRaises(task) == task.category.type # "str"

\* The description body of the event.
Body(task) ==
    LblDescription \o task.description \o <<NL>>
    \o LblNotes \o task.notes \o <<NL>>
    \o LblCategory \o task.category.v \o <<NL>>
    \o LblAssignment \o task.assignment_date \o DashSep \o task.assignment_hour \o <<NL>>
    \o SeparatorLine \o <<NL>>
    \o WarningLine \o <<NL>>
    \o task.last_edited_time \o <<NL>>
    \o task.task_id \o <<NL>>

\* The event body task_to_event returns.  The two dateTime strings are kept
\* as the instants they are the isoformat() of.
TaskToEvent(task) ==
    [summary |-> task.name,
     description |-> Body(task),
     start |-> EventStart(task),
     end |-> PlusMinutes(EventStart(task), EventMinutes),
     reminders |-> [useDefault |-> FALSE, overrides |-> <<24 * 60, 30>>]]

\* ------------------------------------------------------------------------
\* parse_events
\* ------------------------------------------------------------------------

\* The lines of elem['description'].strip().split('\n')
BodyLines(elem) == Split(Strip(elem.description), NL)

\* line.split(":")[1].strip()
AfterColon(line) == Strip(Split(line, ":")[2])

\* Decoding one event raises IndexError: fewer than four lines, or one of
\* the first four lines without a colon.
EventRaises(elem) ==
    LET lines == BodyLines(elem)
    IN  \/ Len(lines) < 4
        \/ \E i \in 1..4 : Len(Split(lines[i], ":")) < 2

\* The dict tmp built for one event that does not raise.  due_date and
\* due_hour are the two sides of the 'T' of the end dateTime.
ParseEvent(elem) ==
    LET lines == BodyLines(elem)
    IN  [event_id |-> elem.id,
         subject |-> elem.summary,
         description |-> AfterColon(lines[1]),
         notes |-> AfterColon(lines[2]),
         category |-> AfterColon(lines[3]),
         assignment_date |-> AfterColon(lines[4]),
         due_date |-> <<elem.end.year, elem.end.month, elem.end.day>>,
         due_hour |-> <<elem.end.hour, elem.end.minute, elem.end.second,
                        elem.end.offset>>,
         last_edited_time |-> Strip(lines[Len(lines) - 1]),
         task_id |-> Strip(lines[Len(lines)])]

Decodable(events) == {i \in DOMAIN events : ~EventRaises(events[i])}

\* parsed_events: a later event with the same task_id replaces an earlier one.
ParsedEvents(events) ==
    LET keys == {ParseEvent(events[i]).task_id : i \in Decodable(events)}
        last(k) == CHOOSE i \in Decodable(events) :
                      /\ ParseEvent(events[i]).task_id = k
                      /\ \A j \in Decodable(events) :
                            ParseEvent(events[j]).task_id = k => j <= i
    IN  [k \in keys |-> ParseEvent(events[last(k)])]

\* err: the events that could not be decoded, in order (their ids).
EventErrors(events) ==
    LET failed == SelectSeq(events, EventRaises)
    IN  [i \in 1..Len(failed) |-> failed[i].id]

\* ------------------------------------------------------------------------
\* The state of the two services and of one run
\* ------------------------------------------------------------------------

VARIABLES
    store,          \* the records of the Notion database
    calendar,       \* the events of the Google calendar, oldest first
    next_event_id,  \* the id the calendar gives the next inserted event
    edits,          \* edits made to the database so far
    run,            \* runs of the __main__ block started so far
    steady,         \* this run follows a run that returned with every write
                    \* done, and reads the database that run read
    pc,             \* where the run is
    db,             \* db_response.json()['results'] of this run
    parsed_tasks,   \* parse_tasks_in_database: the task mapping
    task_err,       \*   and its error list
    parsed_events,  \* parse_events: the event mapping
    gc_err,         \*   and its error list
    to_create_set,
    to_delete_set,
    may_update_set,
    to_create_err,
    to_delete_err,
    may_update_err,
    visited,        \* the keys whose loop iteration has run, in order
    calls           \* the calls made on the calendar service in this run

vars == <<store, calendar, next_event_id, edits, run, steady, pc, db,
          parsed_tasks, task_err, parsed_events, gc_err,
          to_create_set, to_delete_set, may_update_set,
          to_create_err, to_delete_err, may_update_err, visited, calls>>

services == <<store, calendar, next_event_id, edits>>

parsed == <<db, parsed_tasks, task_err, parsed_events, gc_err>>

classes == <<to_create_set, to_delete_set, may_update_set>>

errs == <<to_create_err, to_delete_err, may_update_err>>

\* What to_create, to_delete and may_update return: None, or str(error).
None == "None"

HttpError == "HttpError"

Range(s) == {s[i] : i \in DOMAIN s}

Stopped == pc \in {"idle", "returned", "raised"}

Init ==
    /\ store \in Databases
    /\ calendar = <<>>
    /\ next_event_id = 1
    /\ edits = 0
    /\ run = 0
    /\ steady = FALSE
    /\ pc = "idle"
    /\ db = <<>>
    /\ parsed_tasks = <<>>
    /\ task_err = <<>>
    /\ parsed_events = <<>>
    /\ gc_err = <<>>
    /\ to_create_set = {}
    /\ to_delete_set = {}
    /\ may_update_set = {}
    /\ to_create_err = <<>>
    /\ to_delete_err = <<>>
    /\ may_update_err = <<>>
    /\ visited = <<>>
    /\ calls = <<>>

\* ------------------------------------------------------------------------
\* The Notion database changes between runs
\* ------------------------------------------------------------------------

EditStatuses == {NoStatus, StatusOf(StatusInProgress), StatusOf(StatusCompleted)}

\* Between two runs a user renames a task or sets its status; Notion stamps
\* the record.
ExternalEdit ==
    /\ pc \in {"returned", "raised"}
    /\ run < MaxRuns
    /\ edits < MaxEdits
    /\ \E i \in DOMAIN store :
         \E r \in {[store[i] EXCEPT !.title = << <<"U">> >>]}
                  \cup {[store[i] EXCEPT !.status = s] : s \in EditStatuses} :
            /\ r # store[i]
            /\ store' = [store EXCEPT ![i] =
                            [r EXCEPT !.last_edited_time = Stamp(edits + 1)]]
    /\ edits' = edits + 1
    /\ UNCHANGED <<calendar, next_event_id, run, steady, pc>>
    /\ UNCHANGED <<parsed, classes, errs, visited, calls>>

\* ------------------------------------------------------------------------
\* One run of the __main__ block
\* ------------------------------------------------------------------------

\* read_database and parse_tasks_in_database, in a fresh process.
ParseTasks ==
    /\ Stopped
    /\ run < MaxRuns
    /\ run' = run + 1
    /\ steady' = (/\ pc = "returned"
                  /\ \A i \in DOMAIN calls : calls[i].ok
                  /\ store = db)
    /\ db' = store
    /\ parsed_tasks' = ParsedTasks(store)
    /\ task_err' = ParseErrors(store)
    /\ parsed_events' = <<>>
    /\ gc_err' = <<>>
    /\ to_create_set' = {}
    /\ to_delete_set' = {}
    /\ may_update_set' = {}
    /\ to_create_err' = <<>>
    /\ to_delete_err' = <<>>
    /\ may_update_err' = <<>>
    /\ visited' = <<>>
    /\ calls' = <<>>
    /\ pc' = "tasks_parsed"
    /\ UNCHANGED services

\* read_events and parse_events.
ParseEventsStep ==
    /\ pc = "tasks_parsed"
    /\ parsed_events' = ParsedEvents(calendar)
    /\ gc_err' = EventErrors(calendar)
    /\ pc' = "events_parsed"
    /\ UNCHANGED <<services, run, steady, db, parsed_tasks, task_err>>
    /\ UNCHANGED <<classes, errs, visited, calls>>

ToCreateSet(tasks_on_notion, tasks_on_calendar) ==
    tasks_on_notion \ tasks_on_calendar

ToDeleteSetAll(tasks_on_notion, tasks_on_calendar) == tasks_on_calendar

ToDeleteSet(tasks_on_notion, tasks_on_calendar) ==
    tasks_on_calendar \ tasks_on_notion

MayUpdateSet(tasks_on_notion, tasks_on_calendar) ==
    tasks_on_calendar \cap tasks_on_notion

\* synchronize_tasks, up to its first loop.
Classify ==
    /\ pc = "events_parsed"
    /\ to_create_set' = ToCreateSet(DOMAIN parsed_tasks, DOMAIN parsed_events)
    /\ to_delete_set' = ToDeleteSet(DOMAIN parsed_tasks, DOMAIN parsed_events)
    /\ may_update_set' = MayUpdateSet(DOMAIN parsed_tasks, DOMAIN parsed_events)
    /\ to_create_err' = <<>>
    /\ to_delete_err' = <<>>
    /\ may_update_err' = <<>>
    /\ pc' = "syncing"
    /\ UNCHANGED <<services, run, steady, parsed, visited, calls>>

\* One iteration of the first loop: to_create.  task_to_event is called
\* outside the try block, so what it raises leaves synchronize_tasks.
CreateStep ==
    /\ pc = "syncing"
    /\ \E k \in to_create_set \ Range(visited) :
         IF TaskToEventRaises(parsed_tasks[k])
         THEN /\ pc' = "raised"
              /\ UNCHANGED <<calendar, next_event_id, to_create_err, visited, calls>>
         ELSE \E ok \in BOOLEAN :
              /\ calls' = Append(calls, [op |-> "create", key |-> k,
                                         event_id |-> 0, ok |-> ok])
              /\ calendar' = IF ok
                             THEN Append(calendar, [id |-> next_event_id]
                                                   @@ TaskToEvent(parsed_tasks[k]))
                             ELSE calendar
              /\ next_event_id' = IF ok THEN next_event_id + 1 ELSE next_event_id
              /\ to_create_err' = Append(to_create_err, IF ok THEN None ELSE HttpError)
              /\ visited' = Append(visited, k)
              /\ pc' = pc
    /\ UNCHANGED <<store, edits, run, steady, parsed, classes>>
    /\ UNCHANGED <<to_delete_err, may_update_err>>

\* One iteration of the second loop: to_delete.
DeleteStep ==
    /\ pc = "syncing"
    /\ to_create_set \subseteq Range(visited)
    /\ \E k \in to_delete_set \ Range(visited) :
         \E ok \in BOOLEAN :
            LET event_id == parsed_events[k].event_id
            IN  /\ calls' = Append(calls, [op |-> "delete", key |-> k,
                                           event_id |-> event_id, ok |-> ok])
                /\ calendar' = IF ok
                               THEN SelectSeq(calendar, LAMBDA e : e.id # event_id)
                               ELSE calendar
                /\ to_delete_err' = Append(to_delete_err, IF ok THEN None ELSE HttpError)
                /\ visited' = Append(visited, k)
    /\ UNCHANGED <<store, next_event_id, edits, run, steady, pc, parsed, classes>>
    /\ UNCHANGED <<to_create_err, may_update_err>>

NeedsUpdateAlways(task, parsed_event) == TRUE

\* The guard of may_update.
NeedsUpdate(task, parsed_event) ==
    task.last_edited_time # parsed_event.last_edited_time

\* One iteration of the third loop: may_update.  What may_update returns
\* (None when it does nothing) is appended for every key.
UpdateStep ==
    /\ pc = "syncing"
    /\ to_create_set \cup to_delete_set \subseteq Range(visited)
    /\ \E k \in may_update_set \ Range(visited) :
         LET task == parsed_tasks[k]
             event == parsed_events[k]
         IN  IF ~NeedsUpdate(task, event)
             THEN /\ may_update_err' = Append(may_update_err, None)
                  /\ visited' = Append(visited, k)
                  /\ UNCHANGED <<calendar, calls, pc>>
             ELSE IF TaskToEventRaises(task)
             THEN /\ pc' = "raised"
                  /\ UNCHANGED <<calendar, may_update_err, visited, calls>>
             ELSE \E ok \in BOOLEAN :
                  /\ calls' = Append(calls, [op |-> "update", key |-> k,
                                             event_id |-> event.event_id, ok |-> ok])
                  /\ calendar' =
                        IF ok
                        THEN [i \in DOMAIN calendar |->
                                IF calendar[i].id = event.event_id
                                THEN [id |-> event.event_id] @@ TaskToEvent(task)
                                ELSE calendar[i]]
                        ELSE calendar
                  /\ may_update_err' = Append(may_update_err,
                                              IF ok THEN None ELSE HttpError)
                  /\ visited' = Append(visited, k)
                  /\ pc' = pc
    /\ UNCHANGED <<store, next_event_id, edits, run, steady, parsed, classes>>
    /\ UNCHANGED <<to_create_err, to_delete_err>>

\* synchronize_tasks returns [task_ids, error].
Return ==
    /\ pc = "syncing"
    /\ to_create_set \cup to_delete_set \cup may_update_set \subseteq Range(visited)
    /\ pc' = "returned"
    /\ UNCHANGED <<services, run, steady, parsed, classes, errs, visited, calls>>

Next ==
    \/ ExternalEdit
    \/ ParseTasks
    \/ ParseEventsStep
    \/ Classify
    \/ CreateStep
    \/ DeleteStep
    \/ UpdateStep
    \/ Return

Spec == Init /\ [][Next]_vars

\* ------------------------------------------------------------------------
\* Vocabulary of the properties
\* ------------------------------------------------------------------------

\* The record of this run's database with id k (ids are unique).
RecordOf(k) == db[CHOOSE i \in DOMAIN db : db[i].id = k]

\* The calls of this run made while key k was processed.
CallsOn(k) == {i \in DOMAIN calls : calls[i].key = k}

CallsFor(k, op) == {i \in CallsOn(k) : calls[i].op = op}

AllKeys == DOMAIN parsed_tasks \cup DOMAIN parsed_events

\* The marker of the event equals the task's last_edited_time.
UpToDate(k) ==
    parsed_tasks[k].last_edited_time = parsed_events[k].last_edited_time

\* The keys of the third loop in the order they were processed:
\* may_update_err[i] is what may_update returned for UpdateOrder[i].
UpdateOrder == SelectSeq(visited, LAMBDA k : k \in may_update_set)

HasTime(start) == Len(Split(start, "T")) = 2

OffsetOf(start) == Split(Split(start, "T")[2], "+")[2]

\* ------------------------------------------------------------------------
\* C1: the three key sets synchronize_tasks computes are pairwise disjoint
\* and their union is keys(parsed_tasks) \cup keys(parsed_events).
\* ------------------------------------------------------------------------
C1_Partition ==
    pc \in {"syncing", "returned"} =>
        /\ to_create_set \cap to_delete_set = {}
        /\ to_create_set \cap may_update_set = {}
        /\ to_delete_set \cap may_update_set = {}
        /\ to_create_set \cup to_delete_set \cup may_update_set = AllKeys

\* A run returned with one key to delete and another to check for update.
C1_Witness ==
    /\ pc = "returned"
    /\ to_delete_set # {}
    /\ may_update_set # {}

\* ------------------------------------------------------------------------
\* C2: when a run of synchronize_tasks is over, every key has received
\* exactly the one action of its state: one create call for a task without
\* event, one delete call with the event's event_id for an event without
\* task, one update call with the event's event_id for a pair whose
\* last_edited_time differ, and no call for a pair whose strings are equal.
\* ------------------------------------------------------------------------
C2_OneActionPerKey ==
    pc \in {"returned", "raised"} =>
        \A k \in AllKeys :
            /\ Cardinality(CallsOn(k)) <= 1
            /\ k \notin DOMAIN parsed_events =>
                  Cardinality(CallsFor(k, "create")) = 1
            /\ k \notin DOMAIN parsed_tasks =>
                  /\ Cardinality(CallsFor(k, "delete")) = 1
                  /\ \A i \in CallsOn(k) :
                        calls[i].event_id = parsed_events[k].event_id
            /\ k \in DOMAIN parsed_tasks \cap DOMAIN parsed_events =>
                  IF UpToDate(k)
                  THEN CallsOn(k) = {}
                  ELSE /\ Cardinality(CallsFor(k, "update")) = 1
                       /\ \A i \in CallsOn(k) :
                             calls[i].event_id = parsed_events[k].event_id

\* ------------------------------------------------------------------------
\* C3: a run that follows a run in which every write succeeded, over the
\* same database, has nothing to create, nothing to delete and makes no
\* update call.
\* ------------------------------------------------------------------------
C3_Idempotent ==
    (steady /\ pc \in {"syncing", "returned"}) =>
        /\ to_create_set = {}
        /\ to_delete_set = {}
        /\ \A i \in DOMAIN calls : calls[i].op # "update"

\* ------------------------------------------------------------------------
\* C4: the event decoded from the payload written for a task carries the
\* task's task_id, last_edited_time, description, notes, category and
\* assignment_date.
\* ------------------------------------------------------------------------
C4_RoundTrip ==
    (steady /\ pc \in {"events_parsed", "syncing", "returned"}) =>
        \A k \in DOMAIN parsed_tasks :
            /\ k \in DOMAIN parsed_events
            /\ parsed_events[k].task_id = parsed_tasks[k].task_id
            /\ parsed_events[k].last_edited_time = parsed_tasks[k].last_edited_time
            /\ parsed_events[k].description = parsed_tasks[k].description
            /\ parsed_events[k].notes = parsed_tasks[k].notes
            /\ parsed_events[k].category = parsed_tasks[k].category.v
            /\ parsed_events[k].assignment_date = parsed_tasks[k].assignment_date

\* ------------------------------------------------------------------------
\* C5: no error leaves synchronize_tasks; when it returns, every classified
\* key has had its iteration exactly once and every failed call is recorded
\* in the error list of its category.
\* ------------------------------------------------------------------------
C5_ErrorsContained ==
    /\ pc # "raised"
    /\ pc = "returned" =>
          /\ \A k \in to_create_set \cup to_delete_set \cup may_update_set :
                Cardinality({i \in DOMAIN visited : visited[i] = k}) = 1
          /\ \A op \in {"create", "delete", "update"} :
                LET list == CASE op = "create" -> to_create_err
                              [] op = "delete" -> to_delete_err
                              [] op = "update" -> may_update_err
                IN  Cardinality({i \in DOMAIN calls :
                                    calls[i].op = op /\ ~calls[i].ok})
                    = Cardinality({i \in DOMAIN list : list[i] = HttpError})

\* ------------------------------------------------------------------------
\* C6: no record whose status is Completed, Closed or Failed has its id
\* among the keys of parsed_tasks, nor among the keys the engine acts on.
\* ------------------------------------------------------------------------
C6_ClosedExcluded ==
    \A i \in DOMAIN db :
        (/\ db[i].status.select
         /\ db[i].status.name \in {StatusCompleted, StatusClosed, StatusFailed})
        => /\ db[i].id \notin DOMAIN parsed_tasks
           /\ db[i].id \notin to_create_set \cup may_update_set

\* A run returned over a database with a closed record and an open one.
C6_Witness ==
    /\ pc = "returned"
    /\ \E i \in DOMAIN db :
          /\ db[i].status.select
          /\ db[i].status.name \in {StatusCompleted, StatusClosed, StatusFailed}
    /\ DOMAIN parsed_tasks # {}

\* ------------------------------------------------------------------------
\* C7: in every parsed task, name, description, notes and category are the
\* field's text, or its sentinel when the field is empty, each on its own;
\* category is a string in both cases.
\* ------------------------------------------------------------------------
C7_Sentinels ==
    \A k \in DOMAIN parsed_tasks :
        LET r == RecordOf(k)
            t == parsed_tasks[k]
        IN  /\ t.name = IF r.title = <<>> THEN TitleSentinel ELSE r.title[1]
            /\ t.description = IF r.description = <<>> THEN DescriptionSentinel
                               ELSE r.description[1]
            /\ t.notes = IF r.notes = <<>> THEN NotesSentinel ELSE r.notes[1]
            /\ t.category.type = "str"
            /\ t.category.v = IF r.category = <<>> THEN CategorySentinel
                              ELSE Join(CommaSpace, r.category)

\* ------------------------------------------------------------------------
\* C8: in every parsed task, a Due Date without time gives due_hour
\* "12:00:00", an Assignment Date without time gives assignment_hour
\* "00:00", and for either, user_time_zone is the offset recovered from the
\* other date field, or "00:00" when none was recovered.
\* ------------------------------------------------------------------------
C8_DateDefaults ==
    \A k \in DOMAIN parsed_tasks :
        LET r == RecordOf(k)
            t == parsed_tasks[k]
            aTime == HasTime(r.assignment.start)
            dTime == r.due.kind = "start" /\ HasTime(r.due.start)
            dNoTime == r.due.kind = "start" /\ ~HasTime(r.due.start)
        IN  /\ dNoTime => t.due_hour = DefaultDueHour
            /\ ~aTime => t.assignment_hour = DefaultAssignmentHour
            /\ dNoTime => t.user_time_zone =
                             IF aTime THEN OffsetOf(r.assignment.start)
                             ELSE ZeroOffset
            /\ ~aTime => t.user_time_zone =
                            IF dTime THEN OffsetOf(r.due.start) ELSE ZeroOffset

\* ------------------------------------------------------------------------
\* C9: task_to_event returns a payload for every task of parsed_tasks, and
\* the start is the current instant when the due date cannot be parsed.
\* ------------------------------------------------------------------------
C9_ProjectionTotal ==
    \A k \in DOMAIN parsed_tasks :
        LET t == parsed_tasks[k]
        IN  /\ ~TaskToEventRaises(t)
            /\ StrToDateRaises(t.due_date, t.due_hour, t.user_time_zone)
                  => TaskToEvent(t).start = Now

\* ------------------------------------------------------------------------
\* C10 as claimed: a key of both mappings whose last_edited_time strings
\* are equal gets no call and no entry in the update error list, so the
\* list returned has one entry per key that was out of date.
\* ------------------------------------------------------------------------
C10_NoSlot ==
    pc = "returned" =>
        /\ \A k \in may_update_set : UpToDate(k) => CallsOn(k) = {}
        /\ Len(may_update_err)
           = Cardinality({k \in may_update_set : ~UpToDate(k)})

\* ------------------------------------------------------------------------
\* C10 as amended: a key of both mappings whose last_edited_time strings
\* are equal gets no call, and exactly one entry, None, in the update error
\* list; the list returned has one entry per key of may_update_set.
\* ------------------------------------------------------------------------
C10_NoneSlot ==
    pc \in {"syncing", "returned"} =>
        /\ Len(may_update_err) = Len(UpdateOrder)
        /\ \A i \in DOMAIN UpdateOrder :
              UpToDate(UpdateOrder[i]) =>
                  /\ may_update_err[i] = None
                  /\ CallsOn(UpdateOrder[i]) = {}
        /\ pc = "returned" => Len(may_update_err) = Cardinality(may_update_set)

\* A run returned after the iteration of a key whose marker is up to date.
C10_Witness ==
    /\ pc = "returned"
    /\ \E k \in may_update_set : UpToDate(k)

\* ------------------------------------------------------------------------
\* C11: when a run is over, a decoded event has had its delete call exactly
\* when its task_id is not a key of that run's parsed_tasks; so the event of
\* a record that is still open in the database but was skipped (unreadable
\* Status) or failed parsing has been deleted like that of a removed task.
\* ------------------------------------------------------------------------
C11_DeletedIffNoTask ==
    pc \in {"returned", "raised"} =>
        /\ \A k \in DOMAIN parsed_events :
              k \notin DOMAIN parsed_tasks
              <=> \E i \in DOMAIN calls :
                     /\ calls[i].op = "delete"
                     /\ calls[i].event_id = parsed_events[k].event_id
        /\ \A j \in DOMAIN db :
              (/\ db[j].id \in DOMAIN parsed_events
               /\ ~StatusReadable(db[j]) \/ RecordRaises(db[j]))
              => \E i \in DOMAIN calls :
                    /\ calls[i].op = "delete"
                    /\ calls[i].event_id = parsed_events[db[j].id].event_id

====
